---- MODULE Spec2Model ----
(***************************************************************************)
(* State-machine model of DSLConverter (src/php_dsl.py): the line          *)
(* classifier (ordered recognizer list), the indentation / block-kind      *)
(* stacks with their close pass, the multi-line construct state (match     *)
(* accumulator, do/while, switch/case, with), and the convert() driver     *)
(* with its end-of-input flush.                                            *)
(*                                                                         *)
(* A source line is a record [indent, form, name]: its measured leading    *)
(* indentation, its shape (one representative text per shape, listed at    *)
(* Shape below) and the identifier it binds or mentions.  An output line   *)
(* is a record [ind, txt]: the number of leading spaces and the text as a  *)
(* sequence of tokens.                                                     *)
(***************************************************************************)
EXTENDS Integers, Sequences, FiniteSets, TLC

VARIABLES
    pc,                 \* "idle" | "lines" | "done" | "raised": position in convert()
    calls,              \* number of convert() calls started on this instance
    i,                  \* convert(): index of the next source line
    line,               \* convert(): the source line read last (line / raw / indent)
    indent_stack,
    block_types,
    known_vars,
    known_constants,
    do_while_pending,
    switch_pending,
    case_pending,
    php_lines,
    current_match_var,
    match_cases,
    with_vars,
    current_match_type,
    current_match_dest

vars == << pc, calls, i, line, indent_stack, block_types, known_vars,
           known_constants, do_while_pending, switch_pending, case_pending,
           php_lines, current_match_var, match_cases, with_vars,
           current_match_type, current_match_dest >>

----------------------------------------------------------------------------
(* Bounds of the model *)

MaxLines == 4

MaxCalls == 2

Indents == {0, 2, 4}

Names == {"x", "K"}

\* a name whose spelling contains a keyword
FlagNames == {"isNone"}

None == "None"

NoLine == [indent |-> 0, form |-> "none", name |-> None]

----------------------------------------------------------------------------
(* Sequence helpers *)

Last(q) == q[Len(q)]

Front(q) == SubSeq(q, 1, Len(q) - 1)

Max0(n) == IF n < 0 THEN 0 ELSE n

\* F applied to the value of e, with e evaluated once
Let1(e, F(_)) == CHOOSE y \in {F(x) : x \in {e}} : TRUE

\* ' ' * n + text : a negative repeat count gives the empty prefix
Out(n, txt) == [ind |-> Max0(n), txt |-> txt]

----------------------------------------------------------------------------
(* The engine's fields as one record, so that the close pass and the       *)
(* handlers are functions from engine state to engine state.  "raised" is  *)
(* set when the code would raise (an unbound local).                       *)

Self ==
    [ indent_stack |-> indent_stack, block_types |-> block_types,
      known_vars |-> known_vars, known_constants |-> known_constants,
      do_while_pending |-> do_while_pending, switch_pending |-> switch_pending,
      case_pending |-> case_pending, php_lines |-> php_lines,
      current_match_var |-> current_match_var, match_cases |-> match_cases,
      with_vars |-> with_vars, current_match_type |-> current_match_type,
      current_match_dest |-> current_match_dest, raised |-> FALSE ]

Emit(s, n, txt) == [s EXCEPT !.php_lines = Append(@, Out(n, txt))]

\* a push that records the line's own indentation, not the body's
PushOwnIndent(s, level, kind) ==
    [s EXCEPT !.indent_stack = Append(@, level - 4), !.block_types = Append(@, kind)]

Push(s, level, kind) ==
    [s EXCEPT !.indent_stack = Append(@, level), !.block_types = Append(@, kind)]

\* self.block_types.pop() if self.block_types else None
PopKind(s) == IF s.block_types # <<>> THEN Last(s.block_types) ELSE None

\* a pop that forgets the block-kind stack
PopIndentOnly(s) == [s EXCEPT !.indent_stack = Front(@)]

\* a pop that ends the scope of the names known so far
PopBothScoped(s) ==
    [s EXCEPT !.indent_stack = Front(@),
              !.block_types = IF @ # <<>> THEN Front(@) ELSE @,
              !.known_vars = {}]

PopBoth(s) ==
    [s EXCEPT !.indent_stack = Front(@),
              !.block_types = IF @ # <<>> THEN Front(@) ELSE @]

----------------------------------------------------------------------------
(* _replace_vars on a token sequence: the built-in renames (len, open,     *)
(* int); then, outside string literals, every identifier token that is a   *)
(* known variable and not a known constant gets the sigil, and the keyword *)
(* and word-operator tokens get their symbols.  The keyword replacements   *)
(* are substring replacements (str.replace), so they also act on the       *)
(* tokens that contain a keyword.                                          *)

StringLiterals == {"\"a\"", "\"b\"", "\"f\""}

Builtin(tok) ==
    CASE tok = "len(" -> "count("
      [] tok = "open(" -> "fopen("
      [] tok = "int(" -> "intval("
      [] OTHER -> tok

Sigil(s, tok) ==
    IF tok \in s.known_vars /\ tok \notin s.known_constants
    THEN "$" \o tok
    ELSE tok

Keyword(tok) ==
    CASE tok = "True" -> "true"
      [] tok = "False" -> "false"
      [] tok = "None" -> "null"
      [] tok = " and " -> " && "
      [] tok = " or " -> " || "
      [] tok = " not " -> " ! "
      [] tok = "isNone" -> "isnull"
      [] tok = "$isNone" -> "$isnull"
      [] OTHER -> tok

_replace_vars(s, expr) ==
    [k \in DOMAIN expr |->
        IF expr[k] \in StringLiterals THEN expr[k]
        ELSE Keyword(Sigil(s, Builtin(expr[k])))]

----------------------------------------------------------------------------
(* _finalize_match: emit the collected match expression at the current     *)
(* top-of-stack indentation and clear the accumulator; nothing happens     *)
(* without a discriminant or without case records.                         *)

\* ', '.join(values)
RECURSIVE JoinComma(_)
JoinComma(vals) ==
    IF Len(vals) = 0 THEN <<>>
    ELSE IF Len(vals) = 1 THEN vals[1]
    ELSE (vals[1] \o <<", ">>) \o JoinComma(Tail(vals))

MatchClause(c) ==
    IF c.values = << <<"default">> >>
    THEN <<"    default => ">> \o c.result \o <<",">>
    ELSE <<"    ">> \o JoinComma(c.values) \o <<" => ">> \o c.result \o <<",">>

_finalize_match(s) ==
    IF s.current_match_var = None \/ s.match_cases = <<>> THEN s
    ELSE
      LET indent == IF s.indent_stack # <<>> THEN Last(s.indent_stack) ELSE 0
          expr_str == IF s.current_match_var \in {"true", "false"}
                      THEN s.current_match_var
                      ELSE "$" \o s.current_match_var
          head == IF s.current_match_type = "assignment"
                  THEN <<"$" \o s.current_match_dest, " = match (", expr_str, ") {">>
                  ELSE <<"return match (", expr_str, ") {">>
          body == [k \in DOMAIN s.match_cases |->
                      Out(indent, MatchClause(s.match_cases[k]))]
      IN IF s.current_match_type \notin {"assignment", "return"} THEN s
         ELSE [s EXCEPT
                 !.php_lines = (Append(@, Out(indent, head)) \o body)
                                  \o << Out(indent, <<"};">>) >>,
                 !.current_match_var = None,
                 !.match_cases = <<>>,
                 !.current_match_type = None,
                 !.current_match_dest = None]

----------------------------------------------------------------------------
(* The closing syntax of a popped block: the finally clause of a with      *)
(* block, the terminated brace of an anonymous function, the implicit      *)
(* break of an open case clause, or a plain brace.                         *)

WithCloser(s, level) ==
    IF level \in DOMAIN s.with_vars
    THEN LET base_level == s.with_vars[level][1]
             var_name == s.with_vars[level][2]
         IN [s EXCEPT !.php_lines = @ \o
               << Out(base_level, <<"} finally {">>),
                  Out(base_level + 4, <<"if (isset(", "$" \o var_name,
                                        ") && is_resource(", "$" \o var_name, ")) {">>),
                  Out(base_level + 8, <<"fclose(", "$" \o var_name, ");">>),
                  Out(base_level + 4, <<"}">>),
                  Out(base_level, <<"}">>) >>]
    ELSE s

\* _adjust_indent, lines 78-100: what one pop emits
AdjustClose(s, level, block_type) ==
    IF block_type = "do" /\ s.do_while_pending THEN s
    ELSE IF block_type = "with" THEN WithCloser(s, level)
    ELSE IF block_type = "anon_fn" THEN Emit(s, level, <<"};">>)
    ELSE IF s.case_pending
         THEN [Emit(Emit(s, level, <<"break;">>), level, <<"}">>)
                 EXCEPT !.case_pending = FALSE]
    ELSE IF s.switch_pending
         THEN [Emit(s, level, <<"}">>) EXCEPT !.switch_pending = FALSE]
    ELSE Emit(s, level, <<"}">>)

RECURSIVE _adjust_indent(_, _)
_adjust_indent(s, indent) ==
    IF s.indent_stack # <<>> /\ indent < Last(s.indent_stack)
    THEN LET level == Last(s.indent_stack)
             block_type == PopKind(s)
             popped == PopBoth(s)
             flushed == IF popped.current_match_var # None
                        THEN _finalize_match(popped) ELSE popped
         IN Let1(flushed, LAMBDA f :
              Let1(AdjustClose(f, level, block_type), LAMBDA nxt :
                _adjust_indent(nxt, indent)))
    ELSE s

\* convert, lines 662-684: what one pop of the end-of-input flush emits
FlushClose(s, level, block_type) ==
    IF block_type = "do" /\ s.do_while_pending
    THEN [Emit(s, level - 4, <<"} while (false);">>) EXCEPT !.do_while_pending = FALSE]
    ELSE IF block_type = "with" THEN WithCloser(s, level)
    ELSE IF block_type = "anon_fn" THEN Emit(s, level, <<"};">>)
    ELSE IF s.case_pending
         THEN [Emit(Emit(s, level, <<"break;">>), level, <<"}">>)
                 EXCEPT !.case_pending = FALSE]
    ELSE IF s.switch_pending
         THEN [Emit(s, level, <<"}">>) EXCEPT !.switch_pending = FALSE]
    ELSE Emit(s, level, <<"}">>)

\* convert, lines 654-684: close remaining blocks
RECURSIVE CloseRemaining(_)
CloseRemaining(s) ==
    IF Len(s.indent_stack) > 1
    THEN LET level == Last(s.indent_stack)
             block_type == PopKind(s)
             popped == PopBoth(s)
             flushed == IF popped.current_match_var # None
                        THEN _finalize_match(popped) ELSE popped
         IN Let1(flushed, LAMBDA f :
              Let1(FlushClose(f, level, block_type), LAMBDA nxt :
                CloseRemaining(nxt)))
    ELSE s

----------------------------------------------------------------------------
(* Source lines.  Shape of each form (N is the line's name):               *)
(*   import        import "a.ephp"        func          func f(N) int:     *)
(*   anon_short    N = fn(a): a           anon_long     N = fn(a):         *)
(*   with          with open("f") as N:   match_assign  N = match x:       *)
(*   match_return  return match x:        case_inline   case 1 or 2: "a"   *)
(*   case_colon    case a: b:             default_inline  default: "b"     *)
(*   input         N = input("p")         ternary       N = 1 if c else 2  *)
(*   do            do:                    while_colon   while x:           *)
(*   while_bare    while x                assign        N = 1              *)
(*   return        return x               break / continue / pass          *)
(*   print         print(N)               if / elif     if x: / elif x:    *)
(*   else          else:                  for_range     for N in range(3): *)
(*   foreach       for N in xs:           switch        switch x:          *)
(*   switch_case   case 1:                switch_default  default:         *)
(*   call          f(x)                   block         try:               *)
(*   stmt          N + 1                  blank / comment   (empty) / # c  *)
(*   case_word     case "north": "a"                                       *)
(*   for_range2    for N in range(1, n):                                   *)
(*   for_range3    for N in range(1, n, 2):                                *)
(*   for_range_call  for N in range(min(a, b)):                            *)
(*   assign_list   N = [1, 2]             print_sigil   print($N)          *)

UpperNames == {"K"}

AssignForms == {"anon_short", "anon_long", "match_assign", "input", "ternary", "assign"}

NamedForms == AssignForms \cup {"func", "with", "for_range", "foreach", "print", "stmt"}

PlainForms ==
    {"import", "match_return", "case_inline", "case_colon", "case_word",
     "default_inline",
     "do", "while_colon", "while_bare", "return", "break", "continue", "pass",
     "if", "elif", "else", "switch", "switch_case", "switch_default", "call",
     "block"}

\* the forms for which a name containing a keyword is drawn
FlagForms == {"input", "stmt"}

\* the counted loops with more than a literal bound, and their loop variable
RangeForms == {"for_range2", "for_range3", "for_range_call"}

LoopNames == {"x"}

\* a list literal assigned to a lower-case name at the outermost indentation,
\* and a print call whose argument is written with a sigil
ListForms == {"assign_list"}

SigilForms == {"print_sigil"}

LowerNames == Names \ UpperNames

\* the lines of the given forms
LinesOfForms(F) ==
    [indent : Indents, form : F \cap NamedForms, name : Names]
      \cup [indent : Indents, form : F \cap FlagForms, name : FlagNames]
      \cup [indent : Indents, form : F \cap PlainForms, name : {None}]
      \cup [indent : Indents, form : F \cap RangeForms, name : LoopNames]
      \cup [indent : {0}, form : F \cap ListForms, name : LowerNames]
      \cup [indent : Indents, form : F \cap SigilForms, name : LowerNames]

Lines == LinesOfForms(NamedForms \cup PlainForms \cup RangeForms
                        \cup ListForms \cup SigilForms)

\* raw.strip().endswith(':')
EndsWithColon(ln) ==
    ln.form \in {"func", "anon_long", "with", "match_assign", "match_return",
                 "case_colon", "do", "while_colon", "if", "elif", "else",
                 "for_range", "foreach", "switch", "switch_case",
                 "switch_default", "block"} \cup RangeForms

\* raw.strip() as tokens, for the lines that can reach the fallback
Raw(ln) ==
    CASE ln.form = "stmt" -> <<ln.name, " + ", "1">>
      [] ln.form = "block" -> <<"try", ":">>
      [] ln.form = "case_inline" -> <<"case ", "1", " or ", "2", ": ", "\"a\"">>
      [] ln.form = "case_colon" -> <<"case ", "a", ": ", "b", ":">>
      [] ln.form = "case_word" -> <<"case ", "\"n", "or", "th\"", ": ", "\"a\"">>
      [] ln.form = "default_inline" -> <<"default: ", "\"b\"">>
      [] OTHER -> <<ln.form>>

(* The ordered recognizer list: the forms each pattern matches (upper: the *)
(* pattern also requires an upper-case left-hand name) and its handler.    *)
_register_handlers ==
    << [forms |-> {"import"}, upper |-> FALSE, handler |-> "_handle_import"],
       [forms |-> {"func"}, upper |-> FALSE, handler |-> "_handle_func"],
       [forms |-> {"anon_short"}, upper |-> FALSE, handler |-> "_handle_anon_fn_short"],
       [forms |-> {"anon_long"}, upper |-> FALSE, handler |-> "_handle_anon_fn_long"],
       [forms |-> {"with"}, upper |-> FALSE, handler |-> "_handle_with"],
       [forms |-> {"match_assign"}, upper |-> FALSE, handler |-> "_handle_match_assignment"],
       [forms |-> {"match_return"}, upper |-> FALSE, handler |-> "_handle_match_return"],
       [forms |-> {"case_inline", "case_colon", "case_word"}, upper |-> FALSE,
        handler |-> "_handle_case"],
       [forms |-> {"default_inline"}, upper |-> FALSE, handler |-> "_handle_default"],
       [forms |-> {"input"}, upper |-> FALSE, handler |-> "_handle_input"],
       [forms |-> {"ternary"}, upper |-> FALSE, handler |-> "_handle_ternary"],
       [forms |-> {"do"}, upper |-> FALSE, handler |-> "_handle_do"],
       [forms |-> {"while_colon"}, upper |-> FALSE, handler |-> "_handle_while"],
       [forms |-> {"while_colon", "while_bare"}, upper |-> FALSE, handler |-> "_handle_while"],
       [forms |-> AssignForms \cup ListForms, upper |-> TRUE,
        handler |-> "_handle_constant"],
       [forms |-> AssignForms \cup ListForms, upper |-> FALSE,
        handler |-> "_handle_assignment"],
       [forms |-> {"return", "match_return"}, upper |-> FALSE, handler |-> "_handle_return"],
       [forms |-> {"break"}, upper |-> FALSE, handler |-> "_handle_break"],
       [forms |-> {"continue"}, upper |-> FALSE, handler |-> "_handle_continue"],
       [forms |-> {"pass"}, upper |-> FALSE, handler |-> "_handle_pass"],
       [forms |-> {"print"} \cup SigilForms, upper |-> FALSE, handler |-> "_handle_print"],
       [forms |-> {"if"}, upper |-> FALSE, handler |-> "_handle_if"],
       [forms |-> {"elif"}, upper |-> FALSE, handler |-> "_handle_elif"],
       [forms |-> {"else"}, upper |-> FALSE, handler |-> "_handle_else"],
       [forms |-> {"for_range"} \cup RangeForms, upper |-> FALSE,
        handler |-> "_handle_for_range"],
       [forms |-> {"for_range", "foreach"} \cup RangeForms, upper |-> FALSE,
        handler |-> "_handle_foreach"],
       [forms |-> {"switch"}, upper |-> FALSE, handler |-> "_handle_switch"],
       [forms |-> {"switch_case", "case_colon"}, upper |-> FALSE, handler |-> "_handle_switch_case"],
       [forms |-> {"switch_default"}, upper |-> FALSE, handler |-> "_handle_switch_default"],
       [forms |-> {"call", "print"} \cup SigilForms, upper |-> FALSE,
        handler |-> "_handle_function_call"] >>

\* pattern.match(raw.strip()) for the k-th recognizer
PatternMatch(k, ln) ==
    /\ ln.form \in _register_handlers[k].forms
    /\ _register_handlers[k].upper => ln.name \in UpperNames

\* the recognizers are tried in order from the k-th on: the handler of the
\* first one that matches, None when none does
RECURSIVE FirstMatch(_, _)
FirstMatch(k, ln) ==
    IF k > Len(_register_handlers) THEN None
    ELSE IF PatternMatch(k, ln) THEN _register_handlers[k].handler
    ELSE FirstMatch(k + 1, ln)

Classify(ln) == FirstMatch(1, ln)

\* the forms some pattern of handler h matches; for None, those none matches
FormsOf(h) ==
    IF h = None
    THEN (NamedForms \cup PlainForms)
           \ UNION {_register_handlers[k].forms : k \in DOMAIN _register_handlers}
    ELSE UNION {_register_handlers[k].forms :
                  k \in {j \in DOMAIN _register_handlers :
                            _register_handlers[j].handler = h}}

----------------------------------------------------------------------------
(* The handlers.  Each takes the engine state after the close pass and the *)
(* line, and returns [done, s]: the handler's return value and the state.  *)

Done(s) == [done |-> TRUE, s |-> s]

NotDone(s) == [done |-> FALSE, s |-> s]

AddVar(s, v) == [s EXCEPT !.known_vars = @ \cup {v}]

\* the condition / argument / collection expression of the line's shape
Cond(ln) == IF ln.form = "foreach" THEN <<"xs">> ELSE <<"x">>

_handle_import(s, ln) ==
    Done(Emit(s, ln.indent, <<"require_once \"", "a.php", "\";">>))

_handle_func(s, ln) ==
    Done(AddVar(Push(Emit(s, ln.indent,
                          <<"function f(", "$" \o ln.name, "): ", "int", " {">>),
                     ln.indent + 4, "function"),
                ln.name))

_handle_anon_fn_short(s, ln) ==
    LET s1 == AddVar(s, "a")
        body == _replace_vars(s1, <<"a">>)
    IN Done(AddVar(Emit(s1, ln.indent,
                        <<"$" \o ln.name, " = fn(", "$a", ") => ">> \o body \o <<";">>),
                   ln.name))

_handle_anon_fn_long(s, ln) ==
    Done(AddVar(Push(Emit(AddVar(s, "a"), ln.indent,
                          <<"$" \o ln.name, " = function(", "$a", ") {">>),
                     ln.indent + 4, "anon_fn"),
                ln.name))

_handle_with(s, ln) ==
    LET php_expr == _replace_vars(s, <<"open(", "\"f\"", ")">>)
        s1 == Emit(s, ln.indent, <<"$" \o ln.name, " = ">> \o php_expr \o <<";">>)
        s2 == Push(Emit(s1, ln.indent, <<"try {">>), ln.indent + 4, "with")
        s3 == AddVar(s2, ln.name)
    IN Done([s3 EXCEPT !.with_vars =
                [k \in (DOMAIN @) \cup {ln.indent + 4} |->
                    IF k = ln.indent + 4 THEN <<ln.indent, ln.name>> ELSE @[k]]])

_handle_match_assignment(s, ln) ==
    Done(AddVar([s EXCEPT !.current_match_dest = ln.name,
                          !.current_match_type = "assignment",
                          !.current_match_var = "x",
                          !.match_cases = <<>>],
                ln.name))

_handle_match_return(s, ln) ==
    Done([s EXCEPT !.current_match_dest = None,
                   !.current_match_type = "return",
                   !.current_match_var = "x",
                   !.match_cases = <<>>])

\* m.groups() of the match-case pattern: the values text and the result
CaseText(ln) ==
    CASE ln.form = "case_colon" -> <<"a">>
      [] ln.form = "case_word" -> <<"\"n", "or", "th\"">>
      [] OTHER -> <<"1", " or ", "2">>

CaseResult(ln) == IF ln.form = "case_colon" THEN <<"b", ":">> ELSE <<"\"a\"">>

\* the tokens in which the substring 'or' / 'and' occurs
OrTokens == {"or", " or "}

AndTokens == {"and", " and "}

\* str.split(sep) followed by strip() of each piece: the pieces of the text
\* between the occurrences of the separator
RECURSIVE SplitAt(_, _)
SplitAt(text, seps) ==
    IF \E k \in DOMAIN text : text[k] \in seps
    THEN LET k == CHOOSE j \in DOMAIN text :
                      text[j] \in seps /\ \A h \in 1..(j - 1) : text[h] \notin seps
         IN <<SubSeq(text, 1, k - 1)>> \o SplitAt(SubSeq(text, k + 1, Len(text)), seps)
    ELSE <<text>>

\* for part in v.split('and') over the pieces v
RECURSIVE SplitEach(_, _)
SplitEach(pieces, seps) ==
    IF pieces = <<>> THEN <<>>
    ELSE SplitAt(Head(pieces), seps) \o SplitEach(Tail(pieces), seps)

\* value_list, lines 392-395
CaseValues(ln) == SplitEach(SplitAt(CaseText(ln), OrTokens), AndTokens)

_handle_case(s, ln) ==
    IF s.current_match_var = None THEN NotDone(s)
    ELSE Done([s EXCEPT !.match_cases = Append(@,
                 [values |-> [k \in DOMAIN CaseValues(ln) |->
                                 _replace_vars(s, CaseValues(ln)[k])],
                  result |-> _replace_vars(s, CaseResult(ln))])])

_handle_default(s, ln) ==
    IF s.current_match_var = None THEN NotDone(s)
    ELSE Done([s EXCEPT !.match_cases = Append(@,
                 [values |-> << <<"default">> >>,
                  result |-> _replace_vars(s, <<"\"b\"">>)])])

_handle_input(s, ln) ==
    Done(AddVar(Emit(s, ln.indent, <<"$" \o ln.name, " = readline(\"", "p", "\");">>),
                ln.name))

_handle_ternary(s, ln) ==
    LET s1 == AddVar(s, ln.name)
    IN Done(Emit(s1, ln.indent,
                 <<"$" \o ln.name, " = (">> \o _replace_vars(s1, <<"c">>) \o <<") ? ">>
                   \o _replace_vars(s1, <<"1">>) \o <<" : ">>
                   \o _replace_vars(s1, <<"2">>) \o <<";">>))

_handle_do(s, ln) ==
    Done([Push(Emit(s, ln.indent, <<"do {">>), ln.indent + 4, "do")
            EXCEPT !.do_while_pending = TRUE])

_handle_while(s, ln) ==
    IF s.do_while_pending
    THEN IF s.indent_stack # <<>>
         THEN LET lvl == Last(s.indent_stack)
              IN Done([Emit(PopBoth(s), lvl - 4,
                            <<"} while (">> \o _replace_vars(s, Cond(ln)) \o <<");">>)
                         EXCEPT !.do_while_pending = FALSE])
         ELSE Done([s EXCEPT !.raised = TRUE])   \* lvl is unbound at line 559
    ELSE Done(Push(Emit(s, ln.indent,
                        <<"while (">> \o _replace_vars(s, Cond(ln)) \o <<") {">>),
                   ln.indent + 4, "while"))

\* group(2) of the constant and assignment patterns
AssignValue(ln) ==
    IF ln.form \in ListForms THEN <<"[", "1", ", ", "2", "]">> ELSE <<"1">>

_handle_constant(s, ln) ==
    Done([Emit(s, ln.indent,
               <<"define(\"", ln.name, "\", ">> \o _replace_vars(s, AssignValue(ln))
                   \o <<");">>)
            EXCEPT !.known_constants = @ \cup {ln.name}])

CommaTokens == {", "}

Digits == {<<"1">>, <<"2">>, <<"3">>}

\* a list literal is rebuilt from its converted elements; a value that is all
\* digits is returned as it stands; anything else goes through _replace_vars
_convert_value(s, v) ==
    IF Head(v) = "[" /\ Last(v) = "]"
    THEN LET parts == SplitAt(SubSeq(v, 2, Len(v) - 1), CommaTokens)
         IN <<"[">> \o JoinComma([k \in DOMAIN parts |-> _replace_vars(s, parts[k])])
                    \o <<"]">>
    ELSE IF v \in Digits THEN v
    ELSE _replace_vars(s, v)

_handle_assignment(s, ln) ==
    LET s1 == AddVar(s, ln.name)
    IN Done(Emit(s1, ln.indent,
                 <<"$" \o ln.name, " = ">> \o _convert_value(s1, AssignValue(ln)) \o <<";">>))

_handle_return(s, ln) ==
    Done(Emit(s, ln.indent, <<"return ">> \o _replace_vars(s, Cond(ln)) \o <<";">>))

_handle_break(s, ln) == Done(Emit(s, ln.indent, <<"break;">>))

_handle_continue(s, ln) == Done(Emit(s, ln.indent, <<"continue;">>))

_handle_pass(s, ln) == Done(Emit(s, ln.indent, <<"// pass">>))

\* group(1) of the print pattern
PrintArg(ln) == IF ln.form \in SigilForms THEN <<"$", ln.name>> ELSE <<ln.name>>

\* re.search(r'\$[a-zA-Z_][a-zA-Z0-9_]*$', content): the text ends with a
\* dollar sign followed by an identifier
EndsWithSigil(content) ==
    /\ Len(content) >= 2
    /\ content[Len(content) - 1] = "$"
    /\ Last(content) \in Names

_handle_print(s, ln) ==
    LET content == IF EndsWithSigil(PrintArg(ln))
                   THEN <<"implode(\", \", ">> \o PrintArg(ln) \o <<")">>
                   ELSE PrintArg(ln)
    IN Done(Emit(s, ln.indent, <<"echo ">> \o _replace_vars(s, content) \o <<";">>))

_handle_if(s, ln) ==
    Done(Push(Emit(s, ln.indent, <<"if (">> \o _replace_vars(s, Cond(ln)) \o <<") {">>),
              ln.indent + 4, "if"))

_handle_elif(s, ln) ==
    Done(Push(Emit(s, ln.indent, <<"elseif (">> \o _replace_vars(s, Cond(ln)) \o <<") {">>),
              ln.indent + 4, "elif"))

_handle_else(s, ln) ==
    Done(Push(Emit(s, ln.indent, <<"else {">>), ln.indent + 4, "else"))

\* group(2) of the range pattern: the text between the parentheses
RangeArgs(ln) ==
    CASE ln.form = "for_range2" -> <<"1", ", ", "n">>
      [] ln.form = "for_range3" -> <<"1", ", ", "n", ", ", "2">>
      [] ln.form = "for_range_call" -> <<"min(", "a", ", ", "b", ")">>
      [] OTHER -> <<"3">>

\* the for header of loop variable v with the given start, stop and step
ForLine(s, v, start, stop, step) ==
    <<"for (", v, " = ">> \o _replace_vars(s, start)
        \o <<"; ", v, " < ">> \o _replace_vars(s, stop)
        \o <<"; ", v, " += ">> \o _replace_vars(s, step) \o <<") {">>

_handle_for_range(s, ln) ==
    LET v == "$" \o ln.name
        parts == SplitAt(RangeArgs(ln), CommaTokens)
        for_line == IF Len(parts) = 1 THEN ForLine(s, v, <<"0">>, parts[1], <<"1">>)
                    ELSE IF Len(parts) = 2 THEN ForLine(s, v, parts[1], parts[2], <<"1">>)
                    ELSE ForLine(s, v, parts[1], parts[2], parts[3])
    IN Done(AddVar(Push(Emit(s, ln.indent, for_line), ln.indent + 4, "for"), ln.name))

_handle_foreach(s, ln) ==
    LET s1 == AddVar(s, ln.name)
    IN Done(Push(Emit(s1, ln.indent,
                      <<"foreach (">> \o _replace_vars(s1, Cond(ln))
                        \o <<" as ", "$" \o ln.name, ") {">>),
                 ln.indent + 4, "foreach"))

_handle_switch(s, ln) ==
    Done([Push(Emit(s, ln.indent, <<"switch (">> \o _replace_vars(s, Cond(ln)) \o <<") {">>),
               ln.indent + 4, "switch")
            EXCEPT !.switch_pending = TRUE])

\* group(1) of the switch-case pattern
CaseLabel(ln) == IF ln.form = "case_colon" THEN <<"a", ": ", "b">> ELSE <<"1">>

_handle_switch_case(s, ln) ==
    LET s1 == IF s.case_pending THEN Emit(s, ln.indent - 4, <<"break;">>) ELSE s
    IN Done([Emit(s1, ln.indent, <<"case ">> \o _replace_vars(s, CaseLabel(ln)) \o <<":">>)
               EXCEPT !.case_pending = TRUE])

_handle_switch_default(s, ln) ==
    LET s1 == IF s.case_pending THEN Emit(s, ln.indent - 4, <<"break;">>) ELSE s
    IN Done([Emit(s1, ln.indent, <<"default:">>) EXCEPT !.case_pending = TRUE])

_handle_function_call(s, ln) ==
    Done(Emit(s, ln.indent, <<"f", "(">> \o _replace_vars(s, Cond(ln)) \o <<");">>))

\* done = handler(m, indent)
Handler(h, s, ln) ==
    CASE h = "_handle_import" -> _handle_import(s, ln)
      [] h = "_handle_func" -> _handle_func(s, ln)
      [] h = "_handle_anon_fn_short" -> _handle_anon_fn_short(s, ln)
      [] h = "_handle_anon_fn_long" -> _handle_anon_fn_long(s, ln)
      [] h = "_handle_with" -> _handle_with(s, ln)
      [] h = "_handle_match_assignment" -> _handle_match_assignment(s, ln)
      [] h = "_handle_match_return" -> _handle_match_return(s, ln)
      [] h = "_handle_case" -> _handle_case(s, ln)
      [] h = "_handle_default" -> _handle_default(s, ln)
      [] h = "_handle_input" -> _handle_input(s, ln)
      [] h = "_handle_ternary" -> _handle_ternary(s, ln)
      [] h = "_handle_do" -> _handle_do(s, ln)
      [] h = "_handle_while" -> _handle_while(s, ln)
      [] h = "_handle_constant" -> _handle_constant(s, ln)
      [] h = "_handle_assignment" -> _handle_assignment(s, ln)
      [] h = "_handle_return" -> _handle_return(s, ln)
      [] h = "_handle_break" -> _handle_break(s, ln)
      [] h = "_handle_continue" -> _handle_continue(s, ln)
      [] h = "_handle_pass" -> _handle_pass(s, ln)
      [] h = "_handle_print" -> _handle_print(s, ln)
      [] h = "_handle_if" -> _handle_if(s, ln)
      [] h = "_handle_elif" -> _handle_elif(s, ln)
      [] h = "_handle_else" -> _handle_else(s, ln)
      [] h = "_handle_for_range" -> _handle_for_range(s, ln)
      [] h = "_handle_foreach" -> _handle_foreach(s, ln)
      [] h = "_handle_switch" -> _handle_switch(s, ln)
      [] h = "_handle_switch_case" -> _handle_switch_case(s, ln)
      [] h = "_handle_switch_default" -> _handle_switch_default(s, ln)
      [] h = "_handle_function_call" -> _handle_function_call(s, ln)
      [] OTHER -> NotDone(s)

\* convert, lines 640-646: the line was not handled
Fallback(s, ln) ==
    IF EndsWithColon(ln)
    THEN Push(Emit(s, ln.indent, Front(Raw(ln)) \o <<" {">>), ln.indent + 4, "block")
    ELSE Emit(s, ln.indent, _replace_vars(s, Raw(ln)) \o <<";">>)

\* convert, lines 631-646: close pass, dispatch, fallback
ProcessLine(s, ln) ==
    Let1(_adjust_indent(s, ln.indent), LAMBDA closed :
      Let1(Handler(Classify(ln), closed, ln), LAMBDA r :
        IF r.done THEN r.s ELSE Fallback(r.s, ln)))

----------------------------------------------------------------------------
(* The driver: convert() resets the engine, reads the lines one by one and *)
(* flushes at end of input.                                                *)

Commit(s) ==
    /\ indent_stack' = s.indent_stack
    /\ block_types' = s.block_types
    /\ known_vars' = s.known_vars
    /\ known_constants' = s.known_constants
    /\ do_while_pending' = s.do_while_pending
    /\ switch_pending' = s.switch_pending
    /\ case_pending' = s.case_pending
    /\ php_lines' = s.php_lines
    /\ current_match_var' = s.current_match_var
    /\ match_cases' = s.match_cases
    /\ with_vars' = s.with_vars
    /\ current_match_type' = s.current_match_type
    /\ current_match_dest' = s.current_match_dest

Banner == << Out(0, <<"<?php">>), Out(0, <<"// Generated by DSL to PHP converter">>) >>

\* DSLConverter.__init__
Init ==
    /\ pc = "idle"
    /\ calls = 0
    /\ i = 0
    /\ line = NoLine
    /\ indent_stack = <<0>>
    /\ block_types = <<>>
    /\ known_vars = {}
    /\ known_constants = {}
    /\ do_while_pending = FALSE
    /\ switch_pending = FALSE
    /\ case_pending = FALSE
    /\ php_lines = <<>>
    /\ current_match_var = None
    /\ match_cases = <<>>
    /\ with_vars = <<>>
    /\ current_match_type = None
    /\ current_match_dest = None

\* convert, lines 597-612: the assignments that open a conversion
Reset ==
    /\ php_lines' = Banner
    /\ indent_stack' = <<0>>
    /\ block_types' = <<>>
    /\ do_while_pending' = FALSE
    /\ current_match_var' = None
    /\ match_cases' = <<>>
    /\ with_vars' = <<>>
    /\ known_vars' = {}
    /\ known_constants' = {}
    /\ current_match_type' = None
    /\ current_match_dest' = None
    /\ UNCHANGED <<switch_pending, case_pending>>
    /\ pc' = "lines"
    /\ i' = 0
    /\ line' = NoLine
    /\ calls' = calls + 1

\* the first convert() call on a fresh instance
convert ==
    /\ pc = "idle"
    /\ Reset

\* a later convert() call on the same instance
convert_again ==
    /\ pc \in {"done", "raised"}
    /\ calls < MaxCalls
    /\ Reset

\* one iteration of the loop for a line that reaches the classifier
ReadLine(ln) ==
    /\ pc = "lines"
    /\ i < MaxLines
    /\ \E s \in {ProcessLine(Self, ln)} :
          /\ Commit(s)
          /\ pc' = IF s.raised THEN "raised" ELSE "lines"
          /\ i' = IF s.raised THEN i ELSE i + 1
    /\ line' = ln
    /\ UNCHANGED calls

\* a line that the classifier gives to handler h is read
LineOf(h) ==
    /\ i < MaxLines
    /\ \E ln \in LinesOfForms(FormsOf(h)) : Classify(ln) = h /\ ReadLine(ln)

\* a blank or comment line that went through the close pass like any other line
SkipAfterClose(ln, out) ==
    /\ pc = "lines"
    /\ i < MaxLines
    /\ \E s \in {_adjust_indent(Self, ln.indent)} :
          Commit([s EXCEPT !.php_lines = Append(@, out)])
    /\ i' = i + 1
    /\ line' = ln
    /\ UNCHANGED << pc, calls >>

\* lines 618-629: blank and comment lines bypass close pass and classifier
Skip(ln, out) ==
    /\ pc = "lines"
    /\ i < MaxLines
    /\ php_lines' = Append(php_lines, out)
    /\ i' = i + 1
    /\ line' = ln
    /\ UNCHANGED << pc, calls, indent_stack, block_types, known_vars,
                    known_constants, do_while_pending, switch_pending,
                    case_pending, current_match_var, match_cases, with_vars,
                    current_match_type, current_match_dest >>

BlankLine ==
    /\ pc = "lines"
    /\ \E n \in Indents :
        Skip([indent |-> n, form |-> "blank", name |-> None], Out(0, <<>>))

CommentLine ==
    /\ pc = "lines"
    /\ \E n \in Indents :
        Skip([indent |-> n, form |-> "comment", name |-> None], Out(n, <<"// ", "c">>))

ImportLine == pc = "lines" /\ LineOf("_handle_import")

FuncLine == pc = "lines" /\ LineOf("_handle_func")

AnonFnShortLine == pc = "lines" /\ LineOf("_handle_anon_fn_short")

AnonFnLongLine == pc = "lines" /\ LineOf("_handle_anon_fn_long")

WithLine == pc = "lines" /\ LineOf("_handle_with")

MatchAssignmentLine == pc = "lines" /\ LineOf("_handle_match_assignment")

MatchReturnLine == pc = "lines" /\ LineOf("_handle_match_return")

CaseLine == pc = "lines" /\ LineOf("_handle_case")

DefaultLine == pc = "lines" /\ LineOf("_handle_default")

InputLine == pc = "lines" /\ LineOf("_handle_input")

TernaryLine == pc = "lines" /\ LineOf("_handle_ternary")

DoLine == pc = "lines" /\ LineOf("_handle_do")

WhileLine == pc = "lines" /\ LineOf("_handle_while")

ConstantLine == pc = "lines" /\ LineOf("_handle_constant")

AssignmentLine == pc = "lines" /\ LineOf("_handle_assignment")

ReturnLine == pc = "lines" /\ LineOf("_handle_return")

BreakLine == pc = "lines" /\ LineOf("_handle_break")

ContinueLine == pc = "lines" /\ LineOf("_handle_continue")

PassLine == pc = "lines" /\ LineOf("_handle_pass")

PrintLine == pc = "lines" /\ LineOf("_handle_print")

IfLine == pc = "lines" /\ LineOf("_handle_if")

ElifLine == pc = "lines" /\ LineOf("_handle_elif")

ElseLine == pc = "lines" /\ LineOf("_handle_else")

ForRangeLine == pc = "lines" /\ LineOf("_handle_for_range")

ForeachLine == pc = "lines" /\ LineOf("_handle_foreach")

SwitchLine == pc = "lines" /\ LineOf("_handle_switch")

SwitchCaseLine == pc = "lines" /\ LineOf("_handle_switch_case")

SwitchDefaultLine == pc = "lines" /\ LineOf("_handle_switch_default")

FunctionCallLine == pc = "lines" /\ LineOf("_handle_function_call")



\* no recognizer matches: generic block or generic statement
GenericLine == pc = "lines" /\ LineOf(None)


\* convert, lines 650-686: end of input
Finish ==
    /\ pc = "lines"
    /\ \E s \in {CloseRemaining(IF current_match_var # None
                                  THEN _finalize_match(Self) ELSE Self)} :
          Commit(s)
    /\ pc' = "done"
    /\ UNCHANGED << calls, i, line >>

----------------------------------------------------------------------------
(* Specifications.  Each reads lines of some of the constructs; the close  *)
(* pass, the classifier and the flush are the same in all of them.         *)

\* the block machinery: do / while, conditionals, statements
Next ==
    \/ convert
    \/ DoLine
    \/ WhileLine
    \/ IfLine
    \/ AssignmentLine
    \/ Finish

Spec == Init /\ [][Next]_vars

\* match and switch lines: case / default in and out of a match
NextCase ==
    \/ convert
    \/ MatchAssignmentLine
    \/ CaseLine
    \/ DefaultLine
    \/ SwitchCaseLine
    \/ Finish

SpecCase == Init /\ [][NextCase]_vars

\* one instance converting one text after another
NextReuse ==
    \/ convert
    \/ convert_again
    \/ SwitchLine
    \/ SwitchCaseLine
    \/ IfLine
    \/ Finish

SpecReuse == Init /\ [][NextReuse]_vars

\* resource scopes around loops and statements
NextWith ==
    \/ convert
    \/ WithLine
    \/ DoLine
    \/ WhileLine
    \/ PassLine
    \/ Finish

SpecWith == Init /\ [][NextWith]_vars

\* statements no recognizer matches, over names that are variables, constants
\* or both, or contain a keyword
NextStmt ==
    \/ convert
    \/ InputLine
    \/ ConstantLine
    \/ GenericLine
    \/ Finish

SpecStmt == Init /\ [][NextStmt]_vars

\* names becoming variables and constants, inside and outside loops
NextVars ==
    \/ convert
    \/ AssignmentLine
    \/ ConstantLine
    \/ ForeachLine
    \/ Finish

SpecVars == Init /\ [][NextVars]_vars

\* match constructs inside and outside blocks, followed by statements
NextMatch ==
    \/ convert
    \/ IfLine
    \/ MatchAssignmentLine
    \/ CaseLine
    \/ AssignmentLine
    \/ Finish

SpecMatch == Init /\ [][NextMatch]_vars

\* switch blocks: labels, nested conditionals and explicit breaks
NextSwitch ==
    \/ convert
    \/ SwitchLine
    \/ SwitchCaseLine
    \/ SwitchDefaultLine
    \/ IfLine
    \/ BreakLine
    \/ Finish

SpecSwitch == Init /\ [][NextSwitch]_vars

\* blank and comment lines between with blocks and case labels
NextSkip ==
    \/ convert
    \/ BlankLine
    \/ CommentLine
    \/ WithLine
    \/ SwitchCaseLine
    \/ Finish

SpecSkip == Init /\ [][NextSkip]_vars

\* counted loops of one, two and three arguments after assignments
NextRange ==
    \/ convert
    \/ AssignmentLine
    \/ ForRangeLine
    \/ Finish

SpecRange == Init /\ [][NextRange]_vars

\* print calls after assignments of numbers and of list literals
NextPrint ==
    \/ convert
    \/ AssignmentLine
    \/ PrintLine
    \/ Finish

SpecPrint == Init /\ [][NextPrint]_vars

----------------------------------------------------------------------------
(* Properties *)

\* a line boundary of a conversion: convert() is between two lines or has returned
AtBoundary == pc \in {"lines", "done"}

\* this step reads a source line that reaches the close pass
ReadsLine == pc = "lines" /\ pc' # "done" /\ line'.form \notin {"blank", "comment"}

StrictlyIncreasing(q) == \A a, b \in DOMAIN q : a < b => q[a] < q[b]

OpensBrace(l) ==
    l.txt # <<>> /\ Last(l.txt) \in {" {", ") {", ")) {", "do {", "else {", "try {",
                                     "} finally {"}

ClosesBrace(l) ==
    l.txt # <<>> /\ Head(l.txt) \in {"}", "};", "} while (", "} while (false);",
                                     "} finally {"}

\* openers minus closers among the first k output lines
RECURSIVE NetOpen(_, _)
NetOpen(q, k) ==
    IF k = 0 THEN 0
    ELSE NetOpen(q, k - 1) + (IF OpensBrace(q[k]) THEN 1 ELSE 0)
                           - (IF ClosesBrace(q[k]) THEN 1 ELSE 0)

\* C1: convert() is total: whatever lines are read, no close pass or action raises.
C1_NeverRaises == pc # "raised"

\* C2: when convert() returns, every opening line of the output has its closing
\* line after it (closers never run ahead of openers and the counts are equal)
\* and no block is left on the stacks.
C2_AllBlocksClosed ==
    pc = "done" =>
        /\ \A k \in 0..Len(php_lines) : NetOpen(php_lines, k) >= 0
        /\ NetOpen(php_lines, Len(php_lines)) = 0
        /\ block_types = <<>>
        /\ Len(indent_stack) <= 1

\* C3: after any prefix of the input the Indentation Stack is strictly increasing
\* from bottom to top.
C3_StrictlyIncreasing == StrictlyIncreasing(indent_stack)

C3_Witness == pc = "lines" /\ i >= 3 /\ Len(indent_stack) >= 3

\* C4 as stated: after any prefix of the input (the empty one included) the two
\* stacks have the same length.
C4_EqualLengths == AtBoundary => Len(indent_stack) = Len(block_types)

\* C4 amended: after any prefix of the input the Indentation Stack has one entry
\* per Block-Kind Stack entry, plus the root entry 0 for as long as the root is on
\* the stack (the root has no block kind).
C4_LengthsUpToRoot ==
    AtBoundary =>
        Len(indent_stack) = Len(block_types)
            + (IF indent_stack # <<>> /\ indent_stack[1] = 0 THEN 1 ELSE 0)

C4_Witness ==
    /\ pc = "lines" /\ i >= 3
    /\ Len(block_types) >= 2
    /\ Len(indent_stack) = Len(block_types) + 1

\* C5: at every line boundary the Indentation Stack is non-empty and its bottom
\* element is the root level 0.
C5_RootAtBottom == AtBoundary => indent_stack # <<>> /\ indent_stack[1] = 0

\* C6: a case / default line with an inline result, read while no match
\* accumulator is open, is handled as a switch label: the label is the line
\* emitted, case-pending is set and nothing is pushed.
C6_CaseOutsideMatchIsSwitchLabel ==
    [][ (/\ ReadsLine
         /\ line'.form \in {"case_inline", "case_colon", "default_inline"}
         /\ _adjust_indent(Self, line'.indent).current_match_var = None)
        => (/\ case_pending'
            /\ php_lines' # <<>>
            /\ Head(Last(php_lines').txt) \in {"case ", "default:"}
            /\ Last(Last(php_lines').txt) \in {":", "default:"}
            /\ block_types' = _adjust_indent(Self, line'.indent).block_types) ]_vars

\* C7: after a block-opening line at indentation n, a line at any deeper
\* indentation is inside the block: its close pass pops nothing and emits nothing.
C7_DeeperLineStaysInBlock ==
    [][ (/\ ReadsLine
         /\ i >= 1
         /\ line.form \in {"if", "do"}
         /\ line'.indent > line.indent)
        => (/\ _adjust_indent(Self, line'.indent).indent_stack = indent_stack
            /\ _adjust_indent(Self, line'.indent).block_types = block_types
            /\ _adjust_indent(Self, line'.indent).php_lines = php_lines) ]_vars

\* C8: a while line at the indentation of the do whose block is open and pending
\* closes that loop: it emits the one "} while (COND);" line, opens no while
\* block and clears do-while-pending.
C8_DoWhileIsOneLoop ==
    [][ (/\ ReadsLine
         /\ line'.form \in {"while_colon", "while_bare"}
         /\ do_while_pending
         /\ block_types # <<>> /\ Last(block_types) = "do"
         /\ Last(indent_stack) = line'.indent + 4)
        => (/\ pc' = "lines"
            /\ ~do_while_pending'
            /\ Len(php_lines') = Len(php_lines) + 1
            /\ Head(Last(php_lines').txt) = "} while ("
            /\ Len(block_types') < Len(block_types)
            /\ block_types' = SubSeq(block_types, 1, Len(block_types'))) ]_vars

\* C9: when a convert() call starts, every piece of engine state has its initial
\* value, whatever the instance converted before.
C9_ConvertStartsFresh ==
    (pc = "lines" /\ i = 0) =>
        /\ indent_stack = <<0>> /\ block_types = <<>>
        /\ known_vars = {} /\ known_constants = {}
        /\ current_match_var = None /\ match_cases = <<>>
        /\ current_match_type = None /\ current_match_dest = None
        /\ with_vars = <<>>
        /\ ~do_while_pending /\ ~switch_pending /\ ~case_pending

\* the number of output lines whose text is txt
CountLines(txt) == Cardinality({k \in DOMAIN php_lines : php_lines[k].txt = txt})

\* the number of open blocks of the given kind
CountOpen(kind) == Cardinality({k \in DOMAIN block_types : block_types[k] = kind})

\* the Indentation Stack entry pushed together with the k-th block kind
LevelOf(k) == indent_stack[k + Len(indent_stack) - Len(block_types)]

\* C11: a resource-scope block gets its cleanup exactly once, when it closes: at
\* every line boundary each guarded-block opener emitted so far has its finally
\* clause in the output or its 'with' block still open on the stacks, never both
\* and never neither (so at the end of convert() the counts are equal), and the
\* With-Vars Map holds (parent indentation, NAME) for the level of every open
\* 'with' block.
C11_WithCleanupOnce ==
    AtBoundary =>
        /\ CountLines(<<"try {">>) = CountLines(<<"} finally {">>) + CountOpen("with")
        /\ pc = "done" => CountOpen("with") = 0
        /\ \A k \in DOMAIN block_types :
              block_types[k] = "with" =>
                  /\ LevelOf(k) \in DOMAIN with_vars
                  /\ with_vars[LevelOf(k)][1] = LevelOf(k) - 4

\* the values of a case line as written: the texts between its ` or ` separators
WrittenValues(ln) == SplitAt(CaseText(ln), {" or "})

\* the clause a case line stands for: its written values, each rewritten on its
\* own, mapped to its rewritten result
WrittenCase(s, ln) ==
    [values |-> [k \in DOMAIN WrittenValues(ln) |-> _replace_vars(s, WrittenValues(ln)[k])],
     result |-> _replace_vars(s, CaseResult(ln))]

\* C12: in an assignment-mode match every case line adds one clause, after the
\* clauses of the case lines read before it, that lists exactly the values
\* written between the line's `or` separators (each kept whole and rewritten on
\* its own) and maps them to the line's result; a default line adds a default
\* clause; and the clauses are emitted one per case line, in that order, between
\* the match header and its closing line.
C12_ClausePerCaseLine ==
    [][ /\ (/\ ReadsLine
            /\ line'.form \in {"case_inline", "case_colon", "case_word"}
            /\ _adjust_indent(Self, line'.indent).current_match_type = "assignment")
           => match_cases' =
                  Append(_adjust_indent(Self, line'.indent).match_cases,
                         WrittenCase(_adjust_indent(Self, line'.indent), line'))
        /\ (/\ ReadsLine
            /\ line'.form = "default_inline"
            /\ _adjust_indent(Self, line'.indent).current_match_type = "assignment")
           => /\ Len(match_cases') = Len(_adjust_indent(Self, line'.indent).match_cases) + 1
              /\ Last(match_cases').values = << <<"default">> >>
              /\ Last(match_cases').result = <<"\"b\"">>
        /\ (/\ pc = "lines" /\ pc' = "done"
            /\ current_match_type = "assignment" /\ match_cases # <<>>)
           => /\ Len(php_lines') >= Len(php_lines) + Len(match_cases) + 2
              /\ php_lines'[Len(php_lines) + 1].txt =
                     <<"$" \o current_match_dest, " = match (", "$" \o current_match_var, ") {">>
              /\ \A k \in DOMAIN match_cases :
                     php_lines'[Len(php_lines) + 1 + k].txt = MatchClause(match_cases[k])
              /\ php_lines'[Len(php_lines) + Len(match_cases) + 2].txt = <<"};">> ]_vars

\* C13: a line that no recognizer matches and that does not end with a colon
\* adds exactly one output line after the close pass, ending with ";", pushes
\* nothing, and in that line every identifier that is a known variable and not a
\* known constant carries the sigil while every known constant is left bare.
C13_GenericStatement ==
    [][ (/\ ReadsLine
         /\ Classify(line') = None
         /\ ~EndsWithColon(line'))
        => (/\ Len(php_lines') = Len(_adjust_indent(Self, line'.indent).php_lines) + 1
            /\ Last(php_lines').ind = line'.indent
            /\ Len(Last(php_lines').txt) = Len(Raw(line')) + 1
            /\ Last(Last(php_lines').txt) = ";"
            /\ indent_stack' = _adjust_indent(Self, line'.indent).indent_stack
            /\ block_types' = _adjust_indent(Self, line'.indent).block_types
            /\ \A k \in DOMAIN Raw(line') :
                  /\ Raw(line')[k] \in known_vars \ known_constants
                        => Last(php_lines').txt[k] = "$" \o Raw(line')[k]
                  /\ Raw(line')[k] \in known_constants
                        => Last(php_lines').txt[k] = Raw(line')[k]) ]_vars

\* C14: within one convert() call the Known-Variable Set only grows: every step
\* of the call (a line with its close pass and action, or the end-of-input
\* flush) leaves every name that was in the set in it.
C14_KnownVarsGrow == [][ pc = "lines" => known_vars \subseteq known_vars' ]_vars

\* the call has returned, both names are known and a block was closed on the way
C14_Witness ==
    /\ pc = "done"
    /\ known_vars = {"x", "K"}
    /\ \E k \in DOMAIN php_lines : php_lines[k].txt = <<"}">>

\* the position of the innermost open 'do' block on the Block-Kind Stack
TopDo ==
    CHOOSE k \in DOMAIN block_types :
        block_types[k] = "do" /\ \A j \in (k + 1)..Len(block_types) : block_types[j] # "do"

\* C15: a while line read while do-while-pending is set, at the indentation of
\* the innermost open do, closes that do block and nothing that encloses it:
\* after the line (close pass and while action together) the stacks hold exactly
\* the entries that were below the do block, the root level included; only the
\* do block and the blocks nested in it, which the dedent closes, are gone.
C15_WhileClosesOnlyDo ==
    [][ (/\ ReadsLine
         /\ line'.form \in {"while_colon", "while_bare"}
         /\ do_while_pending
         /\ \E k \in DOMAIN block_types : block_types[k] = "do"
         /\ LevelOf(TopDo) = line'.indent + 4)
        => (/\ block_types' = SubSeq(block_types, 1, TopDo - 1)
            /\ indent_stack' =
                   SubSeq(indent_stack, 1,
                          TopDo + Len(indent_stack) - Len(block_types) - 1)) ]_vars

\* the output line opens a match expression
IsMatchHeader(l) == \E j \in DOMAIN l.txt : l.txt[j] \in {" = match (", "return match ("}

\* the match headers among the output lines this step adds
NewMatchHeaders ==
    {k \in DOMAIN php_lines' : k > Len(php_lines) /\ IsMatchHeader(php_lines'[k])}

\* the open accumulator is carried over by this step, case records included
AccumulatorKept ==
    /\ current_match_var' = current_match_var
    /\ current_match_type' = current_match_type
    /\ current_match_dest' = current_match_dest
    /\ Len(match_cases') >= Len(match_cases)
    /\ SubSeq(match_cases', 1, Len(match_cases)) = match_cases

\* C16: a match construct that has collected a case record is emitted exactly
\* once before convert() returns: the step in which its accumulator goes away
\* (a block close, a further match-open line, the end of input) adds its one
\* match header to the output, no other step adds a match header, and nothing
\* is left in the accumulator when convert() returns.
C16_MatchEmittedOnce ==
    [][ pc = "lines" =>
          /\ (current_match_var # None /\ match_cases # <<>> /\ ~AccumulatorKept)
                => Cardinality(NewMatchHeaders) = 1
          /\ (current_match_var = None \/ match_cases = <<>> \/ AccumulatorKept)
                => NewMatchHeaders = {}
          /\ pc' = "done" => match_cases' = <<>> ]_vars

\* C17: a match accumulator never survives a block close: when the close pass of
\* a line pops a block, no accumulator is open after the close pass, and when
\* the end-of-input flush pops a block, none is open when convert() returns,
\* however many case records (none included) were collected.
C17_NoAccumulatorAfterClose ==
    [][ /\ (/\ ReadsLine
            /\ indent_stack # <<>>
            /\ line'.indent < Last(indent_stack))
           => _adjust_indent(Self, line'.indent).current_match_var = None
        /\ (pc = "lines" /\ pc' = "done" /\ Len(indent_stack) > 1)
           => current_match_var' = None ]_vars

\* the forms of the lines that belong to a match construct
MatchForms ==
    {"match_assign", "match_return", "case_inline", "case_colon", "case_word",
     "default_inline"}

\* C18: output order follows source order for match constructs: when a line
\* that is not part of a match construct is read at the outermost indentation
\* (so not deeper than any match-open line) while an accumulator with case
\* records is open, the match expression is emitted in that step, header to
\* closing line, before the output line of the line read.
C18_MatchBeforeLaterLines ==
    [][ (/\ ReadsLine
         /\ current_match_var # None /\ match_cases # <<>>
         /\ line'.form \notin MatchForms
         /\ \A n \in Indents : line'.indent <= n)
        => \E h \in NewMatchHeaders :
              /\ h + Len(match_cases) + 1 < Len(php_lines')
              /\ php_lines'[h + Len(match_cases) + 1].txt = <<"};">> ]_vars

\* the clauses of the match header at output position h: the lines after it up
\* to the closing line of the expression
ClausesOf(h) ==
    {k \in DOMAIN php_lines :
        /\ k > h
        /\ \A j \in (h + 1)..k : php_lines[j].txt # <<"};">>}

\* C19: in every emitted match expression the default clause is the last clause:
\* no value clause follows a default clause.
C19_DefaultClauseLast ==
    \A h \in DOMAIN php_lines :
        IsMatchHeader(php_lines[h]) =>
            \A d, k \in ClausesOf(h) :
                (Head(php_lines[d].txt) = "    default => " /\ d < k)
                    => Head(php_lines[k].txt) = "    default => "

\* the "break;" lines among the output lines this step adds
NewBreaks ==
    {k \in DOMAIN php_lines' : k > Len(php_lines) /\ php_lines'[k].txt = <<"break;">>}

\* the open 'switch' blocks of an engine state
OpenSwitches(s) == {k \in DOMAIN s.block_types : s.block_types[k] = "switch"}

\* C20: when a case / default label of an open switch is emitted (the label's
\* close pass leaves every open switch block open) while an earlier clause is
\* still open (case-pending is set), the step emits exactly one implicit
\* "break;" and it is the output line directly before the label, whatever the
\* clause's body contained; when no clause is open the step emits no "break;".
C20_BreakDirectlyBeforeLabel ==
    [][ (/\ ReadsLine
         /\ Classify(line') \in {"_handle_switch_case", "_handle_switch_default"}
         /\ OpenSwitches(Self) # {}
         /\ OpenSwitches(_adjust_indent(Self, line'.indent)) = OpenSwitches(Self))
        => (/\ Len(php_lines') >= 2
            /\ Head(Last(php_lines').txt) \in {"case ", "default:"}
            /\ case_pending
                 => /\ NewBreaks = {Len(php_lines') - 1}
            /\ ~case_pending => NewBreaks = {}) ]_vars

\* the arguments of the range call of a counted loop line, as written
RangeArguments(ln) ==
    CASE ln.form = "for_range2" -> << <<"1">>, <<"n">> >>
      [] ln.form = "for_range3" -> << <<"1">>, <<"n">>, <<"2">> >>
      [] ln.form = "for_range_call" -> << <<"min(", "a", ", ", "b", ")">> >>
      [] OTHER -> << <<"3">> >>

\* the counting loop header the arguments stand for: (0, a, 1), (a, b, 1), (a, b, c)
CountingLoop(ln) ==
    LET a == RangeArguments(ln)
        v == "$" \o ln.name
    IN IF Len(a) = 1 THEN ForLine(Self, v, <<"0">>, a[1], <<"1">>)
       ELSE IF Len(a) = 2 THEN ForLine(Self, v, a[1], a[2], <<"1">>)
       ELSE ForLine(Self, v, a[1], a[2], a[3])

\* C24: a counted range loop line emits one counting loop header whose start,
\* stop and step are (0, a, 1) for one argument a, (a, b, 1) for two and
\* (a, b, c) for three, pushes exactly one block of kind 'for' on what the
\* close pass left, and adds the loop variable to the known variables.
C24_RangeLoop ==
    [][ (ReadsLine /\ Classify(line') = "_handle_for_range")
        => (/\ php_lines' = Append(_adjust_indent(Self, line'.indent).php_lines,
                                    Out(line'.indent, CountingLoop(line')))
            /\ block_types' = Append(_adjust_indent(Self, line'.indent).block_types, "for")
            /\ known_vars' = known_vars \cup {line'.name}) ]_vars

\* the "break;" lines the close pass of a line at indentation n adds
CloseBreaks(n) ==
    {k \in DOMAIN _adjust_indent(Self, n).php_lines :
        /\ k > Len(php_lines)
        /\ _adjust_indent(Self, n).php_lines[k].txt = <<"break;">>}

\* the blocks the close pass of a line at indentation n pops
ClosePopped(n) ==
    {k \in DOMAIN block_types : k > Len(_adjust_indent(Self, n).block_types)}

\* C21: the close pass of a line and the end-of-input flush emit an implicit
\* "break;" only for a popped block of kind 'switch' (the terminator stands at
\* that switch block's level); popping a block of any other kind emits no
\* terminator, and case-pending is false once a switch block has been popped.
C21_BreakOnlyForSwitch ==
    [][ /\ ReadsLine =>
             /\ \A k \in CloseBreaks(line'.indent) :
                   \E j \in ClosePopped(line'.indent) :
                      /\ block_types[j] = "switch"
                      /\ LevelOf(j) = _adjust_indent(Self, line'.indent).php_lines[k].ind
             /\ (\E j \in ClosePopped(line'.indent) : block_types[j] = "switch")
                   => ~_adjust_indent(Self, line'.indent).case_pending
        /\ (pc = "lines" /\ pc' = "done") =>
             /\ \A k \in NewBreaks :
                   \E j \in DOMAIN block_types :
                      /\ block_types[j] = "switch"
                      /\ LevelOf(j) = php_lines'[k].ind
             /\ OpenSwitches(Self) # {} => ~case_pending' ]_vars

\* C22: every line that assigns to an all-upper-case name, whatever its
\* right-hand side, is handled as a constant declaration: the name joins the
\* known constants and the known variables are left unchanged.
C22_UpperCaseIsConstant ==
    [][ (ReadsLine /\ line'.form \in AssignForms /\ line'.name \in UpperNames)
        => (/\ known_constants' = known_constants \cup {line'.name}
            /\ known_vars' = known_vars) ]_vars

\* a step that reads a blank line or a comment line
SkipsLine == pc = "lines" /\ i' = i + 1 /\ line'.form \in {"blank", "comment"}

\* C23: processing a blank line or a comment line appends exactly one output
\* line and leaves the indentation stack, the block-kind stack, the known
\* variables and constants, the match accumulator, the with-vars map and the
\* pending flags unchanged, at whatever indentation the line stands.
C23_SkippedLinesKeepState ==
    [][ SkipsLine
        => (/\ Len(php_lines') = Len(php_lines) + 1
            /\ SubSeq(php_lines', 1, Len(php_lines)) = php_lines
            /\ UNCHANGED << indent_stack, block_types, known_vars, known_constants,
                            current_match_var, match_cases, current_match_type,
                            current_match_dest, with_vars, do_while_pending,
                            switch_pending, case_pending >>) ]_vars

\* a comment at indentation 0 has been read inside a with block whose body
\* holds an open case clause, and the block is still open
C23_Witness ==
    /\ pc = "lines"
    /\ line.form = "comment"
    /\ line.indent < Last(indent_stack)
    /\ block_types # <<>>
    /\ with_vars # <<>>
    /\ case_pending
    /\ Last(php_lines).txt = <<"// ", "c">>

\* the output lines that assign to the variable n
AssignmentsTo(n) ==
    {k \in DOMAIN php_lines :
        /\ Len(php_lines[k].txt) >= 2
        /\ php_lines[k].txt[1] = "$" \o n
        /\ php_lines[k].txt[2] = " = "}

\* the latest assignment to n in this conversion assigned a list literal
HoldsList(n) ==
    \E k \in AssignmentsTo(n) :
        /\ \A j \in AssignmentsTo(n) : j <= k
        /\ php_lines[k].txt[3] = "["

\* the output line wraps its argument in the join-with-separator call
Wrapped(l) == \E k \in DOMAIN l.txt : l.txt[k] = "implode(\", \", "

\* C25: a print call emits one output statement; it wraps the argument in the
\* join-with-separator call exactly when the argument is a bare identifier
\* that is a known variable and was earlier assigned a list literal.
C25_PrintJoinsCollections ==
    [][ (ReadsLine /\ Classify(line') = "_handle_print")
        => (/\ Len(php_lines') = Len(_adjust_indent(Self, line'.indent).php_lines) + 1
            /\ Head(Last(php_lines').txt) = "echo "
            /\ Wrapped(Last(php_lines'))
                 <=> (/\ line'.form = "print"
                      /\ line'.name \in known_vars
                      /\ HoldsList(line'.name))) ]_vars

====
